---- MODULE Spec2Model ----
(***************************************************************************)
(* Orbital propagation and collision prediction of the space-debris        *)
(* visualisation (SpaceDebrisVisualization3D, latest revision).            *)
(*                                                                         *)
(* Numbers.  Lengths are fixed-point integers, UNIT per scene unit (so     *)
(* MIN_ORBIT_DISTANCE = 1.5 is 150).  Time is counted in ticks of 0.1 time *)
(* unit, the step size checkCollisions passes to predictCollisions.        *)
(* Angles are positions on a circle of twelve directions whose cosine and  *)
(* sine are rational: the quarter turns and the quarter turns plus         *)
(* atan(3/4) or atan(4/3).  A body's speed is a whole number of quarter    *)
(* turns per tick, so that t * speed + phase stays on the circle and       *)
(* Math.cos and Math.sin are exact there.  Math.sqrt is the integer square *)
(* root (rounded down to one fixed-point unit); the bodies the model draws *)
(* are chosen so that the root taken by the propagation is exact.          *)
(***************************************************************************)
EXTENDS Integers, Sequences, FiniteSets, TLC

VARIABLES
    \* ---- state of SpaceDebrisVisualization3D (specification Spec) ----
    data,              \* useState<SpaceObject[]>: the current batch
    collisions,        \* useState<Collision[]>: the displayed list
    objectPositions,   \* objectPositionsRef.current: id -> last position
    meshPositions,     \* meshRef.current.position of each body's mesh
    clock,             \* clock.getElapsedTime() of the last frame, in ticks
    timerData,         \* the batch captured by the registered interval
    effectPending,     \* the [data] effect has not yet re-run after setData
    cycled,            \* a check cycle has run since the timer was registered
    lastChecked,       \* the objects the last check cycle has built
    lastPredicted,     \* predictedCollisions of the last check cycle
    trail,             \* useState<Vector3[]> of each body's SpaceObject
    clockStop,         \* the elapsed time of the last frame of the run
    selectedObject,    \* useState<SpaceObject | null>
    followedObject,    \* useState<SpaceObject | null>
    filters,           \* useState<Record<type, boolean>>
    cameraZoom,        \* useState(15), in UNIT
    cameraPosition,    \* cameraRef.current.position
    mounted,           \* the component is mounted
    intervals,         \* the handles of the intervals that are active
    interval,          \* the handle the last run of the [data] effect holds
    \* ---- the producers of a batch (specification SpecGen) ----
    response,          \* the items of the catalog's answer
    randoms,           \* the values Math.random() returns, in order
    produced,          \* the bodies the producers returned
    \* ---- the angle-stepping revision (specification SpecStep) ----
    frames,            \* how many frames have been rendered
    \* ---- one call of detectCollisions / predictCollisions (SpecCall) ----
    objects,           \* argument: the object list
    timeSteps,         \* argument
    stepSize,          \* argument, in ticks
    pc,                \* position of the call
    step,              \* the for loop's variable
    futurePositions,   \* the last round's futurePositions
    predictedCollisions, \* the accumulator of predictCollisions
    returned,          \* the value predictCollisions returned
    detected,          \* the value detectCollisions returned
    stepsRun,          \* the steps whose round has run, in order
    propagations,      \* per body index, how often it was propagated
    detectCalls        \* how often the pairwise detector was invoked

appVars == <<data, collisions, objectPositions, meshPositions, clock,
             timerData, effectPending, cycled, lastChecked, lastPredicted>>
callVars == <<objects, timeSteps, stepSize, pc, step, futurePositions,
              predictedCollisions, returned, detected, stepsRun,
              propagations, detectCalls>>
uiVars == <<trail, clockStop, selectedObject, followedObject,
            filters, cameraZoom, cameraPosition, mounted, intervals, interval>>
genVars == <<response, randoms, produced, frames>>
vars == <<appVars, callVars, uiVars, genVars>>

----------------------------------------------------------------------------
(* Bounds of the model. *)
MaxBodies == 3
MaxSteps == 4
MaxClock == 1

----------------------------------------------------------------------------
(* Arithmetic. *)

UNIT == 10 * 10

\* Mutant of Max: the smaller argument is returned.
MaxPicksSmaller(a, b) == IF a <= b THEN a ELSE b

Max(a, b) == IF a >= b THEN a ELSE b

Min(a, b) == IF a <= b THEN a ELSE b

\* Heron's iteration from above: stops at the largest r with r * r <= n.
RECURSIVE SqrtSearch(_, _)
SqrtSearch(n, r) ==
    LET next == (r + n \div r) \div 2
    IN  IF next < r THEN SqrtSearch(n, next) ELSE r

\* Math.sqrt on fixed-point squares, rounded down to a whole unit.
Sqrt(n) == IF n = 0 THEN 0 ELSE SqrtSearch(n, n)

\* cos of the twelve directions, times UNIT.
CosTable == <<100, 80, 60, 0, -60, -80, -100, -80, -60, 0, 60, 80>>

FullTurn == Len(CosTable)

QuarterTurn == FullTurn \div 4

Cos(angle) == CosTable[(angle % FullTurn) + 1]

Sin(angle) == Cos(angle - QuarterTurn)

\* The product of two fixed-point numbers.
Mul(a, b) == (a * b) \div UNIT

----------------------------------------------------------------------------
(* Vectors (THREE.Vector3).  The absent position (undefined) is <<>>. *)

Undefined == <<>>

Vector3(x, y, z) == <<x, y, z>>

DistanceToSquared(p, q) ==
    (p[1] - q[1]) * (p[1] - q[1]) + (p[2] - q[2]) * (p[2] - q[2])
        + (p[3] - q[3]) * (p[3] - q[3])

DistanceTo(p, q) == Sqrt(DistanceToSquared(p, q))

LengthSq(p) == p[1] * p[1] + p[2] * p[2] + p[3] * p[3]

----------------------------------------------------------------------------
(* Program constants. *)

EARTH_RADIUS == 1 * UNIT

MIN_ORBIT_RADIUS == (EARTH_RADIUS * 15) \div 10

MAX_ORBIT_RADIUS == EARTH_RADIUS * 10

MIN_ORBIT_DISTANCE == Max((EARTH_RADIUS * 12) \div 10, MIN_ORBIT_RADIUS)

\* predictCollisions(objects, 100, 0.1): 100 steps of one tick.
CHECK_TIME_STEPS == 100

CHECK_STEP_SIZE == 1

\* uniqueCollisions.slice(0, 4)
DISPLAYED == 4

\* newTrail.slice(-100): the positions a trail keeps.
TRAIL_LENGTH == 100

\* useState(15): the camera's distance when the page opens.
INITIAL_ZOOM == 15 * UNIT

\* Math.max(5, Math.min(newZoom, 50)).
MIN_ZOOM == 5 * UNIT

MAX_ZOOM == 50 * UNIT

\* The camera's distance from a followed body: Vector3(0, 0, 5), and the
\* position prop [0, 0, 5] of the camera while a body is followed.
FOLLOW_DISTANCE == 5 * UNIT

\* null, of useState<SpaceObject | null>.
Null == <<>>

\* SpaceObject["type"].
Types == {"satellite", "asteroid", "debris", "comet"}

\* The filters the page opens with: every type shown.
AllShown == [type \in Types |-> TRUE]

\* The clock before the first frame has read it.
BeforeFirstFrame == 0 - 1

\* The handle setInterval returns first.
FirstHandle == 1

----------------------------------------------------------------------------
(* Bodies. *)

SpaceObject(id, type, orbitRadius, eccentricity, inclination, phase, speed, size) ==
    [id |-> id, type |-> type, orbitRadius |-> orbitRadius,
     eccentricity |-> eccentricity, inclination |-> inclination,
     phase |-> phase, speed |-> speed, size |-> size, position |-> Undefined]

\* { ...obj, position }
WithPosition(obj, position) == [obj EXCEPT !.position = position]

HasPosition(obj) == obj.position # Undefined

----------------------------------------------------------------------------
(* Propagation, as SpaceObject's useFrame computes it for an elapsed time. *)

\* a * Math.sqrt(1 - e * e)
SemiMinorAxis(a, eccentricity) ==
    Mul(a, Sqrt(UNIT * UNIT - eccentricity * eccentricity))

\* Mutant of ScaleToMinimum: the position is not scaled.
ScaleNotApplied(coordinate, distance) == coordinate

\* Math.max(distance, MIN_ORBIT_DISTANCE) / distance, applied to a coordinate
ScaleToMinimum(coordinate, distance) ==
    (coordinate * Max(distance, MIN_ORBIT_DISTANCE)) \div distance

FramePosition(object, elapsed) ==
    LET t == elapsed * object.speed
        a == Max(object.orbitRadius, MIN_ORBIT_DISTANCE)
        b == SemiMinorAxis(a, object.eccentricity)
        angle == t + object.phase
        x == Mul(Mul(a, Cos(angle)), Cos(object.inclination))
        y == Mul(b, Sin(angle))
        z == Mul(Mul(a, Cos(angle)), Sin(object.inclination))
        distance == Sqrt(x * x + y * y + z * z)
    IN  Vector3(ScaleToMinimum(x, distance), ScaleToMinimum(y, distance),
                ScaleToMinimum(z, distance))

----------------------------------------------------------------------------
(* detectCollisions *)

Collision(obj1, obj2, distance) ==
    [obj1 |-> obj1, obj2 |-> obj2, distance |-> distance]

\* Mutant of Overlaps: bodies that only touch count as colliding.
OverlapsOrTouches(distance, obj1, obj2) == distance <= obj1.size + obj2.size

\* Mutant of Overlaps: the first body's size is counted twice.
OverlapsFirstSizeTwice(distance, obj1, obj2) == distance < obj1.size + obj1.size

\* distance < obj1.size + obj2.size
Overlaps(distance, obj1, obj2) == distance < obj1.size + obj2.size

\* Mutant of DetectLoop: the inner loop restarts at the first body.
RECURSIVE DetectLoopAllPairs(_, _, _, _)
DetectLoopAllPairs(objs, i, j, found) ==
    IF i > Len(objs) THEN found
    ELSE IF j > Len(objs) THEN DetectLoopAllPairs(objs, i + 1, 1, found)
    ELSE LET obj1 == objs[i]
             obj2 == objs[j]
         IN  IF HasPosition(obj1) /\ HasPosition(obj2)
             THEN LET distance == DistanceTo(obj1.position, obj2.position)
                  IN  IF distance < obj1.size + obj2.size
                      THEN DetectLoopAllPairs(objs, i, j + 1,
                               Append(found, [obj1 |-> obj1, obj2 |-> obj2,
                                              distance |-> distance]))
                      ELSE DetectLoopAllPairs(objs, i, j + 1, found)
             ELSE DetectLoopAllPairs(objs, i, j + 1, found)

\* Mutant of DetectLoop: a pair without both positions ends the whole search.
RECURSIVE DetectLoopStopsAtUndefined(_, _, _, _)
DetectLoopStopsAtUndefined(objs, i, j, found) ==
    IF i > Len(objs) THEN found
    ELSE IF j > Len(objs) THEN DetectLoopStopsAtUndefined(objs, i + 1, i + 2, found)
    ELSE LET obj1 == objs[i]
             obj2 == objs[j]
         IN  IF HasPosition(obj1) /\ HasPosition(obj2)
             THEN LET distance == DistanceTo(obj1.position, obj2.position)
                  IN  IF distance < obj1.size + obj2.size
                      THEN DetectLoopStopsAtUndefined(objs, i, j + 1,
                               Append(found, [obj1 |-> obj1, obj2 |-> obj2,
                                              distance |-> distance]))
                      ELSE DetectLoopStopsAtUndefined(objs, i, j + 1, found)
             ELSE found

\* The two nested loops: i over the list, j from i + 1 (indices from 1).
RECURSIVE DetectLoop(_, _, _, _)
DetectLoop(objs, i, j, found) ==
    IF i > Len(objs) THEN found
    ELSE IF j > Len(objs) THEN DetectLoop(objs, i + 1, i + 2, found)
    ELSE LET obj1 == objs[i]
             obj2 == objs[j]
         IN  IF HasPosition(obj1) /\ HasPosition(obj2)
             THEN LET distance == DistanceTo(obj1.position, obj2.position)
                  IN  IF Overlaps(distance, obj1, obj2)
                      THEN DetectLoop(objs, i, j + 1,
                                      Append(found, Collision(obj1, obj2, distance)))
                      ELSE DetectLoop(objs, i, j + 1, found)
             ELSE DetectLoop(objs, i, j + 1, found)

detectCollisions(objs) == DetectLoop(objs, 1, 2, <<>>)

----------------------------------------------------------------------------
(* predictCollisions *)

\* Mutant of FuturePosition: a body that has a recorded position keeps it.
FuturePositionKeepsRecorded(obj, stp, size) ==
    IF HasPosition(obj) THEN obj.position
    ELSE Vector3(Mul(Mul(Max(obj.orbitRadius, MIN_ORBIT_DISTANCE),
                         Cos(stp * size * obj.speed + obj.phase)),
                     Cos(obj.inclination)),
                 Mul(Mul(Max(obj.orbitRadius, MIN_ORBIT_DISTANCE),
                         Sqrt(UNIT * UNIT - obj.eccentricity * obj.eccentricity)),
                     Sin(stp * size * obj.speed + obj.phase)),
                 Mul(Mul(Max(obj.orbitRadius, MIN_ORBIT_DISTANCE),
                         Cos(stp * size * obj.speed + obj.phase)),
                     Sin(obj.inclination)))

\* The position objects.map computes for one body at one step.
FuturePosition(obj, stp, size) ==
    LET t == stp * size * obj.speed
        a == Max(obj.orbitRadius, MIN_ORBIT_DISTANCE)
        b == SemiMinorAxis(a, obj.eccentricity)
        angle == t + obj.phase
        x == Mul(Mul(a, Cos(angle)), Cos(obj.inclination))
        y == Mul(b, Sin(angle))
        z == Mul(Mul(a, Cos(angle)), Sin(obj.inclination))
    IN  Vector3(x, y, z)

\* objects.map((obj) => ({ ...obj, position: ... }))
FutureObjects(objs, stp, size) ==
    [i \in 1..Len(objs) |-> WithPosition(objs[i], FuturePosition(objs[i], stp, size))]

\* Mutant of TimeToCollision: the step number, not scaled by the step size.
TimeToCollisionInSteps(stp, size) == stp

\* timeToCollision: step * stepSize
TimeToCollision(stp, size) == stp * size

\* An event carries the optional field.
HasTimeToCollision(c) == "timeToCollision" \in DOMAIN c

\* { ...c, timeToCollision }
WithTimeToCollision(c, time) ==
    [f \in DOMAIN c \cup {"timeToCollision"} |->
        IF f = "timeToCollision" THEN time ELSE c[f]]

\* stepCollisions.map((c) => ({ ...c, timeToCollision: step * stepSize }))
TagStep(stepCollisions, stp, size) ==
    [k \in 1..Len(stepCollisions) |->
        WithTimeToCollision(stepCollisions[k], TimeToCollision(stp, size))]

\* Mutant of PushAll: the round's events are put in front.
PushAllInFront(list, tagged) == tagged \o list

\* predictedCollisions.push(...tagged)
PushAll(list, tagged) == list \o tagged

\* Mutant of FirstStep: the loop starts at step 0, the present.
FirstStepZero == 1 - 1

\* Mutant of LoopContinues: the last step is left out.
LoopContinuesBelow(stp, steps) == stp < steps

\* for (let step = 1; ...
FirstStep == 1

\* ...; step <= timeSteps; ...
LoopContinues(stp, steps) == stp <= steps

\* One round of the loop: the events it pushes.
StepCollisions(objs, stp, size) ==
    TagStep(detectCollisions(FutureObjects(objs, stp, size)), stp, size)

\* What the rounds of the steps lo..hi for which the loop's condition holds
\* push, in increasing step order.  The range is halved so that the hundred
\* rounds of checkCollisions nest only a few levels deep; the loop itself is
\* taken round by round in specification SpecCall.
RECURSIVE PredictRounds(_, _, _, _, _)
PredictRounds(objs, steps, size, lo, hi) ==
    IF lo > hi THEN <<>>
    ELSE IF lo = hi
    THEN IF LoopContinues(lo, steps)
         THEN PushAll(<<>>, StepCollisions(objs, lo, size))
         ELSE <<>>
    ELSE LET mid == (lo + hi) \div 2
         IN  PushAll(PredictRounds(objs, steps, size, lo, mid),
                     PredictRounds(objs, steps, size, mid + 1, hi))

predictCollisions(objs, steps, size) ==
    PredictRounds(objs, steps, size, FirstStep, steps)

----------------------------------------------------------------------------
(* The bodies the model draws its inputs from.  Fields: id, type,           *)
(* orbitRadius, eccentricity, inclination, phase, speed, size.             *)

\* Eccentric orbit at the minimum radius: its semi-minor axis is 1.2.
BodyA == SpaceObject("a", "satellite", 150, 60, 0, 0, 3, 5)

\* The same orbit run backwards from the opposite side: meets BodyA.
BodyB == SpaceObject("b", "debris", 150, 60, 0, 6, -3, 1)

\* Circular orbit 0.05 outside BodyA's semi-major axis.
BodyC == SpaceObject("c", "asteroid", 155, 0, 0, 0, 3, 3)

\* Inclined circular orbit, starting off the axes, twice as fast.
BodyD == SpaceObject("d", "comet", 200, 0, 1, 1, 6, 2)

\* An orbit radius below MIN_ORBIT_DISTANCE.
BodyE == SpaceObject("e", "asteroid", 50, 0, 0, 0, 3, 5)

\* Two circular orbits 0.06 apart, run in opposite directions from opposite
\* sides: the bodies pass each other after every odd number of quarter turns.
BodyF == SpaceObject("f", "satellite", 200, 0, 0, 0, 3, 4)

BodyG == SpaceObject("g", "debris", 206, 0, 0, 6, -3, 4)

\* Two circular orbits 0.02 apart, the outer body twice as fast: the bodies
\* first pass each other after two ticks.
BodyH == SpaceObject("h", "comet", 250, 0, 0, 0, 3, 2)

BodyI == SpaceObject("i", "asteroid", 252, 0, 0, 6, 6, 2)

\* Circular orbit 0.02 outside BodyC's, always next to BodyC.
BodyJ == SpaceObject("j", "debris", 157, 0, 0, 0, 3, 1)

\* Two bodies that overlap at elapsed times 0, 4, 8, ... only: k-l is detected
\* by the first frame and predicted for step 4.
BodyK == SpaceObject("k", "satellite", 300, 0, 0, 0, 3, 2)

BodyL == SpaceObject("l", "asteroid", 302, 0, 0, 0, 6, 2)

\* Argument lists of a direct call: bodies with any recorded position or none.
CallObjects ==
    { WithPosition(BodyA, Vector3(150, 0, 0)),
      WithPosition(BodyB, Vector3(153, 4, 0)),
      WithPosition(BodyC, Vector3(153, 0, 0)),
      BodyD,
      WithPosition(BodyE, Vector3(150, 0, 0)) }

StepSizes == {-1, 1, 2}

\* The sequences of distinct elements of S, of length 0 to n.
RECURSIVE DistinctSeqs(_, _)
DistinctSeqs(S, n) ==
    IF n = 0 THEN {<<>>}
    ELSE LET shorter == DistinctSeqs(S, n - 1)
         IN  shorter \cup
             { Append(qx[1], qx[2]) :
                 qx \in { pr \in shorter \X S :
                            /\ Len(pr[1]) = n - 1
                            /\ \A i \in 1..Len(pr[1]) : pr[1][i] # pr[2] } }

----------------------------------------------------------------------------
(* Specification SpecCall: one call of detectCollisions followed by one    *)
(* call of predictCollisions on the same list, as checkCollisions makes    *)
(* them, the for loop of predictCollisions taken one round at a time.      *)

\* The state of the page as it opens, apart from the batch and the bodies:
\* nothing selected or followed, every type shown, the camera at its initial
\* distance, the interval of the first run of the [data] effect registered.
UiIdle ==
    /\ selectedObject = Null
    /\ followedObject = Null
    /\ filters = AllShown
    /\ cameraZoom = INITIAL_ZOOM
    /\ cameraPosition = Vector3(0, 0, INITIAL_ZOOM)
    /\ mounted = TRUE
    /\ intervals = {FirstHandle}
    /\ interval = FirstHandle

\* No producer has been called, no frame of the earlier revision rendered.
GenIdle ==
    /\ response = <<>>
    /\ randoms = <<>>
    /\ produced = <<>>
    /\ frames = 0

AppIdle ==
    /\ UiIdle
    /\ clockStop = MaxClock
    /\ trail = <<>>
    /\ data = <<>>
    /\ collisions = <<>>
    /\ objectPositions = <<>>
    /\ meshPositions = <<>>
    /\ clock = 0
    /\ timerData = <<>>
    /\ effectPending = FALSE
    /\ cycled = FALSE
    /\ lastChecked = <<>>
    /\ lastPredicted = <<>>

\* No call of detectCollisions or predictCollisions is followed.
CallIdle ==
    /\ objects = <<>>
    /\ timeSteps = 0
    /\ stepSize = 0
    /\ pc = "idle"
    /\ step = 0
    /\ futurePositions = <<>>
    /\ predictedCollisions = <<>>
    /\ returned = <<>>
    /\ detected = <<>>
    /\ stepsRun = <<>>
    /\ propagations = <<>>
    /\ detectCalls = 0

InitCall ==
    /\ AppIdle
    /\ GenIdle
    /\ objects \in DistinctSeqs(CallObjects, MaxBodies)
    /\ timeSteps \in -1..MaxSteps
    /\ stepSize \in StepSizes
    /\ pc = "start"
    /\ step = 0
    /\ futurePositions = <<>>
    /\ predictedCollisions = <<>>
    /\ returned = <<>>
    /\ detected = <<>>
    /\ stepsRun = <<>>
    /\ propagations = [i \in 1..Len(objects) |-> 0]
    /\ detectCalls = 0

\* const currentCollisions = detectCollisions(objects)
CallDetect ==
    /\ pc = "start"
    /\ detected' = detectCollisions(objects)
    /\ pc' = "detected"
    /\ UNCHANGED <<objects, timeSteps, stepSize, step, futurePositions,
                   predictedCollisions, returned, stepsRun, propagations,
                   detectCalls>>
    /\ UNCHANGED <<appVars, uiVars, genVars>>

\* predictCollisions is entered: the accumulator is empty, step is 1.
PredictEnter ==
    /\ pc = "detected"
    /\ predictedCollisions' = <<>>
    /\ step' = FirstStep
    /\ pc' = "loop"
    /\ UNCHANGED <<objects, timeSteps, stepSize, futurePositions, returned,
                   detected, stepsRun, propagations, detectCalls>>
    /\ UNCHANGED <<appVars, uiVars, genVars>>

\* One round of the for loop: propagate every body, detect, tag, push.
PredictRound ==
    /\ pc = "loop"
    /\ LoopContinues(step, timeSteps)
    /\ LET future == FutureObjects(objects, step, stepSize)
           stepCollisions == detectCollisions(future)
       IN  /\ futurePositions' = future
           /\ predictedCollisions' =
                  PushAll(predictedCollisions,
                          TagStep(stepCollisions, step, stepSize))
    /\ step' = step + 1
    /\ stepsRun' = Append(stepsRun, step)
    /\ propagations' = [i \in 1..Len(objects) |-> propagations[i] + 1]
    /\ detectCalls' = detectCalls + 1
    /\ UNCHANGED <<objects, timeSteps, stepSize, pc, returned, detected>>
    /\ UNCHANGED <<appVars, uiVars, genVars>>

\* The loop's condition fails: return predictedCollisions.
PredictReturn ==
    /\ pc = "loop"
    /\ ~LoopContinues(step, timeSteps)
    /\ returned' = predictedCollisions
    /\ pc' = "done"
    /\ UNCHANGED <<objects, timeSteps, stepSize, step, futurePositions,
                   predictedCollisions, detected, stepsRun, propagations,
                   detectCalls>>
    /\ UNCHANGED <<appVars, uiVars, genVars>>

NextCall == CallDetect \/ PredictEnter \/ PredictRound \/ PredictReturn

SpecCall == InitCall /\ [][NextCall]_vars

----------------------------------------------------------------------------
(* Specification Spec: SpaceDebrisVisualization3D.  Its callbacks run one  *)
(* at a time: a rendered frame (every SpaceObject's useFrame), a tick of   *)
(* the check timer, the end of generateNewSample, the [data] effect.       *)

\* The bodies a batch is made of: orbitRadius >= MIN_ORBIT_DISTANCE, as both
\* generateRandomObject and fetchNASAData leave it.
Batches ==
    { <<BodyA, BodyB>>, <<BodyA, BodyC, BodyB>>, <<BodyC, BodyA>> }

Ids == {"a", "b", "c", "f", "g", "h", "i", "j", "k", "l"}

IdsOf(batch) == { batch[i].id : i \in 1..Len(batch) }

NoPositions == [id \in Ids |-> Undefined]

\* No body has a trail.
NoTrails == [id \in Ids |-> <<>>]

Init ==
    /\ UiIdle
    /\ clockStop = MaxClock
    /\ GenIdle
    /\ trail = NoTrails
    /\ data = <<>>
    /\ collisions = <<>>
    /\ objectPositions = NoPositions
    /\ meshPositions = NoPositions
    /\ clock = BeforeFirstFrame
    /\ timerData = <<>>
    /\ effectPending = FALSE
    /\ cycled = FALSE
    /\ lastChecked = <<>>
    /\ lastPredicted = <<>>
    /\ objects = <<>>
    /\ timeSteps = 0
    /\ stepSize = 0
    /\ pc = "idle"
    /\ step = 0
    /\ futurePositions = <<>>
    /\ predictedCollisions = <<>>
    /\ returned = <<>>
    /\ detected = <<>>
    /\ stepsRun = <<>>
    /\ propagations = <<>>
    /\ detectCalls = 0

\* data.filter((object) => filters[object.type]): the bodies Scene renders.
FilteredData(batch, shown) ==
    SelectSeq(batch, LAMBDA object : shown[object.type])

\* The SpaceObject components are keyed by object.id: a body that is no
\* longer rendered loses its component, and with it its mesh and its trail.
KeptMeshes(rendered) ==
    [id \in Ids |-> IF id \in IdsOf(rendered) THEN meshPositions[id]
                    ELSE Undefined]

KeptTrails(rendered) ==
    [id \in Ids |-> IF id \in IdsOf(rendered) THEN trail[id] ELSE <<>>]

\* generateNewSample, from the fetch's answer on: setData,
\* setSelectedObject(null), setCollisions([]).
GenerateNewSample ==
    /\ mounted
    /\ \E batch \in Batches :
        /\ data' = batch
        /\ selectedObject' = Null
        /\ collisions' = <<>>
        /\ effectPending' = TRUE
        /\ meshPositions' = KeptMeshes(FilteredData(batch, filters))
        /\ trail' = KeptTrails(FilteredData(batch, filters))
    /\ UNCHANGED <<objectPositions, clock, timerData, cycled, lastChecked,
                   lastPredicted>>
    /\ UNCHANGED <<clockStop, followedObject, filters,
                   cameraZoom, cameraPosition, mounted, intervals, interval>>
    /\ UNCHANGED <<callVars, genVars>>

\* The handle of a new interval: one that no active interval has.
NewHandle(active) ==
    CHOOSE handle \in 1..(Cardinality(active) + 1) : handle \notin active

\* Mutant of RunEffect: the effect has no cleanup, the old interval stays.
RunEffectKeepsInterval ==
    /\ mounted
    /\ effectPending
    /\ intervals' = intervals \cup {NewHandle(intervals)}
    /\ interval' = NewHandle(intervals)
    /\ timerData' = data
    /\ effectPending' = FALSE
    /\ cycled' = FALSE
    /\ lastChecked' = <<>>
    /\ lastPredicted' = <<>>
    /\ UNCHANGED <<data, collisions, objectPositions, meshPositions, clock>>
    /\ UNCHANGED <<trail, clockStop, selectedObject, followedObject, filters,
                   cameraZoom, cameraPosition, mounted>>
    /\ UNCHANGED <<callVars, genVars>>

\* The effect on [data]: its cleanup, clearInterval(interval) of the previous
\* run, then setInterval of a checkCollisions that has captured the new batch.
RunEffect ==
    /\ mounted
    /\ effectPending
    /\ intervals' =
           (intervals \ {interval}) \cup {NewHandle(intervals \ {interval})}
    /\ interval' = NewHandle(intervals \ {interval})
    /\ timerData' = data
    /\ effectPending' = FALSE
    /\ cycled' = FALSE
    /\ lastChecked' = <<>>
    /\ lastPredicted' = <<>>
    /\ UNCHANGED <<data, collisions, objectPositions, meshPositions, clock>>
    /\ UNCHANGED <<trail, clockStop, selectedObject, followedObject, filters,
                   cameraZoom, cameraPosition, mounted>>
    /\ UNCHANGED <<callVars, genVars>>

\* Mutant of TrailAfter: the trail keeps its first TRAIL_LENGTH positions.
TrailKeepsOldest(prevTrail, position) ==
    SubSeq(Append(prevTrail, position), 1,
           IF Len(prevTrail) + 1 < TRAIL_LENGTH
           THEN Len(prevTrail) + 1 ELSE TRAIL_LENGTH)

\* setTrail's updater: [...prevTrail, position].slice(-100).
TrailAfter(prevTrail, position) ==
    SubSeq(Append(prevTrail, position),
           IF Len(prevTrail) + 1 > TRAIL_LENGTH
           THEN Len(prevTrail) + 1 - TRAIL_LENGTH + 1 ELSE 1,
           Len(prevTrail) + 1)

\* The objectPositionsRef of Scene: created empty, and written nowhere.
SceneObjectPositions == NoPositions

\* Scene's useFrame: the camera goes to the followed body's position in
\* Scene's objectPositionsRef, if there is one, plus Vector3(0, 0, 5).
CameraAfterFrame ==
    IF followedObject # Null
    THEN LET objectPosition == SceneObjectPositions[followedObject.id]
         IN  IF objectPosition # Undefined
             THEN Vector3(objectPosition[1], objectPosition[2],
                          objectPosition[3] + FOLLOW_DISTANCE)
             ELSE cameraPosition
    ELSE cameraPosition

\* Mutant of Frame: a body that has a recorded position is written there again.
FrameFromRecorded ==
    /\ mounted
    /\ clock < clockStop
    /\ LET elapsed == clock + 1
           rendered == FilteredData(data, filters)
           written ==
               [id \in IdsOf(rendered) |->
                   IF objectPositions[id] # Undefined THEN objectPositions[id]
                   ELSE FramePosition(
                            data[CHOOSE i \in 1..Len(data) : data[i].id = id],
                            elapsed)]
       IN  /\ clock' = elapsed
           /\ objectPositions' =
                  [id \in Ids |-> IF id \in IdsOf(rendered) THEN written[id]
                                  ELSE objectPositions[id]]
           /\ meshPositions' =
                  [id \in Ids |-> IF id \in IdsOf(rendered) THEN written[id]
                                  ELSE meshPositions[id]]
           /\ trail' =
                  [id \in Ids |->
                      IF id \in IdsOf(rendered)
                      THEN TrailAfter(trail[id], written[id])
                      ELSE trail[id]]
           /\ cameraPosition' = CameraAfterFrame
    /\ UNCHANGED <<data, collisions, timerData, effectPending, cycled,
                   lastChecked, lastPredicted>>
    /\ UNCHANGED <<clockStop, selectedObject, followedObject,
                   filters, cameraZoom, mounted, intervals, interval>>
    /\ UNCHANGED <<callVars, genVars>>

\* One frame, a tick after the last: Scene's useFrame, and useFrame of every
\* rendered body at the clock's elapsed time, which writes the mesh position,
\* calls setPosition(object.id, ...) and appends the position to the trail.
Frame ==
    /\ mounted
    /\ clock < clockStop
    /\ LET elapsed == clock + 1
           rendered == FilteredData(data, filters)
           written ==
               [id \in IdsOf(rendered) |->
                   FramePosition(
                       data[CHOOSE i \in 1..Len(data) : data[i].id = id],
                       elapsed)]
       IN  /\ clock' = elapsed
           /\ objectPositions' =
                  [id \in Ids |-> IF id \in IdsOf(rendered) THEN written[id]
                                  ELSE objectPositions[id]]
           /\ meshPositions' =
                  [id \in Ids |-> IF id \in IdsOf(rendered) THEN written[id]
                                  ELSE meshPositions[id]]
           /\ trail' =
                  [id \in Ids |->
                      IF id \in IdsOf(rendered)
                      THEN TrailAfter(trail[id], written[id])
                      ELSE trail[id]]
           /\ cameraPosition' = CameraAfterFrame
    /\ UNCHANGED <<data, collisions, timerData, effectPending, cycled,
                   lastChecked, lastPredicted>>
    /\ UNCHANGED <<clockStop, selectedObject, followedObject,
                   filters, cameraZoom, mounted, intervals, interval>>
    /\ UNCHANGED <<callVars, genVars>>

\* Which function produced an event: a history field no code reads.
ProducedBy(list, producer) ==
    [k \in 1..Len(list) |->
        [f \in DOMAIN list[k] \cup {"producedBy"} |->
            IF f = "producedBy" THEN producer ELSE list[k][f]]]

\* c.obj1.id === collision.obj1.id && c.obj2.id === collision.obj2.id
SamePair(c, collision) ==
    c.obj1.id = collision.obj1.id /\ c.obj2.id = collision.obj2.id

\* self.findIndex(...): the first index from k on whose event is the same pair.
RECURSIVE FindIndex(_, _, _)
FindIndex(self, collision, k) ==
    IF k > Len(self) THEN 0
    ELSE IF SamePair(self[k], collision) THEN k
    ELSE FindIndex(self, collision, k + 1)

\* allCollisions.filter((collision, index, self) => index === self.findIndex(...)):
\* the events whose index is the first index of their pair, in their order.
FilterUnique(self) ==
    LET first == { index \in 1..Len(self) :
                     index = FindIndex(self, self[index], 1) }
        Nth(k) == CHOOSE index \in first :
                     Cardinality({ i \in first : i <= index }) = k
    IN  [k \in 1..Cardinality(first) |-> self[Nth(k)]]

\* A value used as a condition: timeToCollision is there and is not 0.
Truthy(c) == HasTimeToCollision(c) /\ c.timeToCollision # 0

\* The comparator given to sort.
Compare(a, b) ==
    IF Truthy(a) /\ Truthy(b)
    THEN a.timeToCollision - b.timeToCollision
    ELSE a.distance - b.distance

\* Array.prototype.sort, as a stable insertion sort: each element moves left
\* past the elements the comparator puts after it.
RECURSIVE InsertFrom(_, _, _)
InsertFrom(sorted, c, k) ==
    IF k >= 1 /\ Compare(c, sorted[k]) < 0
    THEN InsertFrom(sorted, c, k - 1)
    ELSE SubSeq(sorted, 1, k) \o <<c>> \o SubSeq(sorted, k + 1, Len(sorted))

RECURSIVE SortFrom(_, _, _)
SortFrom(list, index, sorted) ==
    IF index > Len(list) THEN sorted
    ELSE SortFrom(list, index + 1, InsertFrom(sorted, list[index], Len(sorted)))

Sort(list) == SortFrom(list, 1, <<>>)

\* Mutant of MergeCollisions: the list is cut to 4 before it is sorted.
MergeCollisionsCutsFirst(prevCollisions, currentCollisions, predicted) ==
    LET newCollisions == currentCollisions \o predicted
        allCollisions == prevCollisions \o newCollisions
        uniqueCollisions == FilterUnique(allCollisions)
    IN  Sort(SubSeq(uniqueCollisions, 1, Min(DISPLAYED, Len(uniqueCollisions))))

\* Mutant of MergeCollisions: the previous list is not merged in.
MergeCollisionsOfCycleOnly(prevCollisions, currentCollisions, predicted) ==
    LET newCollisions == currentCollisions \o predicted
        uniqueCollisions == FilterUnique(newCollisions)
    IN  SubSeq(Sort(uniqueCollisions), 1, Min(DISPLAYED, Len(uniqueCollisions)))

\* The updater given to setCollisions.
MergeCollisions(prevCollisions, currentCollisions, predicted) ==
    LET newCollisions == currentCollisions \o predicted
        allCollisions == prevCollisions \o newCollisions
        uniqueCollisions == FilterUnique(allCollisions)
    IN  SubSeq(Sort(uniqueCollisions), 1, Min(DISPLAYED, Len(uniqueCollisions)))

\* data.map((obj) => ({ ...obj, position: objectPositionsRef.current[obj.id] }))
CachedObjects(batch) ==
    [i \in 1..Len(batch) |-> WithPosition(batch[i], objectPositions[batch[i].id])]

\* A tick of the interval: checkCollisions on the batch it has captured.
CheckCollisions ==
    LET objs == CachedObjects(timerData)
        currentCollisions == detectCollisions(objs)
    IN  /\ interval \in intervals
        /\ lastPredicted' =
               predictCollisions(objs, CHECK_TIME_STEPS, CHECK_STEP_SIZE)
        /\ collisions' =
               MergeCollisions(collisions,
                               ProducedBy(currentCollisions, "detectCollisions"),
                               ProducedBy(lastPredicted', "predictCollisions"))
        /\ cycled' = TRUE
        /\ lastChecked' = objs
        /\ UNCHANGED <<data, objectPositions, meshPositions, clock, timerData,
                       effectPending>>
        /\ UNCHANGED <<trail, clockStop, selectedObject, followedObject,
                       filters, cameraZoom, cameraPosition, mounted, intervals,
                       interval>>
        /\ UNCHANGED <<callVars, genVars>>

Next == GenerateNewSample \/ RunEffect \/ Frame \/ CheckCollisions

Spec == Init /\ [][Next]_vars

----------------------------------------------------------------------------
(* The handlers of the page's controls and of a click on a body.           *)

\* <PerspectiveCamera position={[0, 0, followedObject ? 5 : cameraZoom]}>.
CameraProp(followed, zoom) ==
    Vector3(0, 0, IF followed # Null THEN FOLLOW_DISTANCE ELSE zoom)

\* A render applies the camera's position prop when its value has changed.
CameraAfterRender(followed, zoom) ==
    IF CameraProp(followed, zoom) # CameraProp(followedObject, cameraZoom)
    THEN CameraProp(followed, zoom)
    ELSE cameraPosition

\* onClick of a rendered body's mesh: handleObjectClick(object).
HandleObjectClick ==
    /\ mounted
    /\ \E i \in 1..Len(FilteredData(data, filters)) :
          LET object == FilteredData(data, filters)[i]
          IN  /\ selectedObject' = object
              /\ followedObject' = object
              /\ cameraPosition' = CameraAfterRender(object, cameraZoom)
    /\ UNCHANGED <<trail, clockStop, filters, cameraZoom, mounted, intervals,
                   interval>>
    /\ UNCHANGED <<appVars, callVars, genVars>>

\* The button 'Follow Object', shown while a body is selected and none is
\* followed: setFollowedObject(selectedObject).
FollowSelected ==
    /\ mounted
    /\ selectedObject # Null
    /\ followedObject = Null
    /\ followedObject' = selectedObject
    /\ cameraPosition' = CameraAfterRender(selectedObject, cameraZoom)
    /\ UNCHANGED <<trail, clockStop, selectedObject, filters, cameraZoom,
                   mounted, intervals, interval>>
    /\ UNCHANGED <<appVars, callVars, genVars>>

\* The button 'Stop Following', shown while a body is selected and one is
\* followed: stopFollowing.
StopFollowing ==
    /\ mounted
    /\ selectedObject # Null
    /\ followedObject # Null
    /\ followedObject' = Null
    /\ cameraPosition' = CameraAfterRender(Null, cameraZoom)
    /\ UNCHANGED <<trail, clockStop, selectedObject, filters, cameraZoom,
                   mounted, intervals, interval>>
    /\ UNCHANGED <<appVars, callVars, genVars>>

\* Mutant of ZoomAfter: the new distance is not limited.
ZoomUnlimited(prev, direction) ==
    IF direction = "in" THEN (prev * 9) \div 10 ELSE (prev * 11) \div 10

\* The updater handleZoom gives to setCameraZoom.
ZoomAfter(prev, direction) ==
    LET newZoom ==
            IF direction = "in" THEN (prev * 9) \div 10 ELSE (prev * 11) \div 10
    IN  Max(MIN_ZOOM, Min(newZoom, MAX_ZOOM))

\* handleZoom(direction), of the two zoom buttons.
HandleZoom ==
    /\ mounted
    /\ \E direction \in {"in", "out"} :
          /\ cameraZoom' = ZoomAfter(cameraZoom, direction)
          /\ cameraPosition' = CameraAfterRender(followedObject, cameraZoom')
    /\ UNCHANGED <<trail, clockStop, selectedObject, followedObject, filters,
                   mounted, intervals, interval>>
    /\ UNCHANGED <<appVars, callVars, genVars>>

\* Mutant of ToggleFilter: the bodies that are hidden lose their cached
\* position as well.
ToggleFilterClearsCache ==
    /\ mounted
    /\ \E type \in Types :
          /\ filters' = [filters EXCEPT ![type] = ~filters[type]]
          /\ meshPositions' = KeptMeshes(FilteredData(data, filters'))
          /\ trail' = KeptTrails(FilteredData(data, filters'))
          /\ objectPositions' =
                 [id \in Ids |->
                     IF \E i \in 1..Len(data) :
                            data[i].id = id /\ ~filters'[data[i].type]
                     THEN Undefined
                     ELSE objectPositions[id]]
    /\ UNCHANGED <<data, collisions, clock, timerData, effectPending, cycled,
                   lastChecked, lastPredicted>>
    /\ UNCHANGED <<clockStop, selectedObject, followedObject, cameraZoom,
                   cameraPosition, mounted, intervals, interval>>
    /\ UNCHANGED <<callVars, genVars>>

\* toggleFilter(type), of the filter buttons; the bodies Scene no longer
\* renders lose their components.
ToggleFilter ==
    /\ mounted
    /\ \E type \in Types :
          /\ filters' = [filters EXCEPT ![type] = ~filters[type]]
          /\ meshPositions' = KeptMeshes(FilteredData(data, filters'))
          /\ trail' = KeptTrails(FilteredData(data, filters'))
    /\ UNCHANGED <<data, collisions, objectPositions, clock, timerData,
                   effectPending, cycled, lastChecked, lastPredicted>>
    /\ UNCHANGED <<clockStop, selectedObject, followedObject, cameraZoom,
                   cameraPosition, mounted, intervals, interval>>
    /\ UNCHANGED <<callVars, genVars>>

\* The page is left: the component unmounts, and the cleanup of the [data]
\* effect runs clearInterval(interval).
Unmount ==
    /\ mounted
    /\ mounted' = FALSE
    /\ intervals' = intervals \ {interval}
    /\ effectPending' = FALSE
    /\ UNCHANGED <<data, collisions, objectPositions, meshPositions, clock,
                   timerData, cycled, lastChecked, lastPredicted>>
    /\ UNCHANGED <<trail, clockStop, selectedObject, followedObject, filters,
                   cameraZoom, cameraPosition, interval>>
    /\ UNCHANGED <<callVars, genVars>>

----------------------------------------------------------------------------
(* Specification SpecSelect: the component with the clicks that select and *)
(* follow a body: batches, frames, clicks on bodies and on the follow      *)
(* button.                                                                 *)

NextSelect ==
    \/ GenerateNewSample
    \/ RunEffect
    \/ Frame
    \/ HandleObjectClick
    \/ FollowSelected
    \/ StopFollowing

SpecSelect == Init /\ [][NextSelect]_vars

----------------------------------------------------------------------------
(* Specification SpecFilter: the component once a batch is set and its     *)
(* timer registered: frames, ticks of the check timer, and clicks on the   *)
(* filter buttons.                                                         *)

\* Batches of a comet and an asteroid of which each comes, a tick later, to
\* where the other was.
FilterBatches == { <<BodyH, BodyI>>, <<BodyI, BodyH>> }

InitFilter ==
    /\ UiIdle
    /\ GenIdle
    /\ CallIdle
    /\ clockStop = MaxClock
    /\ trail = NoTrails
    /\ data \in FilterBatches
    /\ timerData = data
    /\ collisions = <<>>
    /\ objectPositions = NoPositions
    /\ meshPositions = NoPositions
    /\ clock = BeforeFirstFrame
    /\ effectPending = FALSE
    /\ cycled = FALSE
    /\ lastChecked = <<>>
    /\ lastPredicted = <<>>

NextFilter == Frame \/ CheckCollisions \/ ToggleFilter

SpecFilter == InitFilter /\ [][NextFilter]_vars

----------------------------------------------------------------------------
(* Specification SpecTimer: the component and its check timers: batches,   *)
(* runs of the [data] effect, ticks, and the unmount of the component.     *)

NextTimer ==
    \/ GenerateNewSample
    \/ RunEffect
    \/ Frame
    \/ CheckCollisions
    \/ Unmount

SpecTimer == Init /\ [][NextTimer]_vars

----------------------------------------------------------------------------
(* Specification SpecStep: the earlier revision, in which a body is an     *)
(* angle on a circle that every frame advances by the body's speed, and    *)
(* the list of events is predicted once, when the component is mounted.    *)
(* There data holds the generated bodies (mutated by the frames), produced *)
(* the bodies as the prediction saw them, meshPositions the position of    *)
(* the mesh of body i, and collisions the predicted events.                *)

\* The default values of predictCollisions' timeStep and steps.
DEFAULT_TIME_STEP == 1

DEFAULT_STEPS == 100

\* The day of the month of the first predicted date.
FIRST_DAY == 5

\* How many bodies generateDummyData makes.
DummyCount == 2

\* What Math.random() gives one body: its angle, radius, y, size and speed.
DummyDraws ==
    { [angle |-> angle, radius |-> radius, y |-> 0, size |-> 6,
       speed |-> speed] :
        angle \in {0, 2}, radius \in {3 * UNIT, 3 * UNIT + 10},
        speed \in {1, 0 - 1} }

generateDummyData(draws) ==
    [i \in 1..Len(draws) |->
        [id |-> i,
         angle |-> draws[i].angle,
         radius |-> draws[i].radius,
         y |-> draws[i].y,
         size |-> draws[i].size,
         speed |-> draws[i].speed]]

\* The position of a body whose angle is given: the position prop of its
\* mesh, and what useFrame writes to the mesh.
OnCircle(obj, angle) ==
    Vector3(Mul(obj.radius, Cos(angle)), obj.y, Mul(obj.radius, Sin(angle)))

\* futureObj1 and futureObj2 of predictCollisions.
FutureObj(obj, stp) == OnCircle(obj, obj.angle + obj.speed * stp)

\* The event predictCollisions pushes for a pair at a step.
SteppingEvent(obj1, obj2, stp, timeStep) ==
    [object1 |-> obj1.id,
     object2 |-> obj2.id,
     time |-> FIRST_DAY + stp * timeStep,
     x |-> (FutureObj(obj1, stp)[1] + FutureObj(obj2, stp)[1]) \div 2,
     y |-> (FutureObj(obj1, stp)[2] + FutureObj(obj2, stp)[2]) \div 2,
     z |-> (FutureObj(obj1, stp)[3] + FutureObj(obj2, stp)[3]) \div 2]

\* The two inner loops of predictCollisions at one step, from pair (i, j) on.
RECURSIVE SteppingPairs(_, _, _, _, _, _)
SteppingPairs(objs, stp, timeStep, i, j, found) ==
    IF i > Len(objs) THEN found
    ELSE IF j > Len(objs)
         THEN SteppingPairs(objs, stp, timeStep, i + 1, i + 2, found)
    ELSE SteppingPairs(objs, stp, timeStep, i, j + 1,
            IF DistanceTo(FutureObj(objs[i], stp), FutureObj(objs[j], stp))
                    < objs[i].size + objs[j].size
            THEN Append(found,
                        SteppingEvent(objs[i], objs[j], stp, timeStep))
            ELSE found)

\* The outer loop of predictCollisions over the steps lo..hi: what the inner
\* loops push at each step, in increasing step order (the range is halved
\* so that the evaluation stays shallow).
RECURSIVE SteppingLoop(_, _, _, _)
SteppingLoop(objs, timeStep, lo, hi) ==
    IF lo > hi THEN <<>>
    ELSE IF lo = hi THEN SteppingPairs(objs, lo, timeStep, 1, 2, <<>>)
    ELSE SteppingLoop(objs, timeStep, lo, (lo + hi) \div 2)
            \o SteppingLoop(objs, timeStep, (lo + hi) \div 2 + 1, hi)

predictCollisionsStepping(objs, timeStep, steps) ==
    SteppingLoop(objs, timeStep, 0, steps - 1)

InitStep ==
    /\ UiIdle
    /\ GenIdle
    /\ CallIdle
    /\ clockStop = MaxClock
    /\ trail = <<>>
    /\ data = <<>>
    /\ collisions = <<>>
    /\ objectPositions = <<>>
    /\ meshPositions = <<>>
    /\ clock = BeforeFirstFrame
    /\ timerData = <<>>
    /\ effectPending = TRUE
    /\ cycled = FALSE
    /\ lastChecked = <<>>
    /\ lastPredicted = <<>>

\* The mount effect runs, and the component renders the generated bodies.
StepMount ==
    /\ effectPending
    /\ \E draws \in [1..DummyCount -> DummyDraws] :
          \E generatedData \in {generateDummyData(draws)} :
             /\ data' = generatedData
             /\ produced' = generatedData
             /\ collisions' = predictCollisionsStepping(generatedData,
                                    DEFAULT_TIME_STEP, DEFAULT_STEPS)
             /\ meshPositions' =
                    [i \in 1..Len(generatedData) |->
                        OnCircle(generatedData[i], generatedData[i].angle)]
    /\ effectPending' = FALSE
    /\ UNCHANGED <<objectPositions, clock, timerData, cycled, lastChecked,
                   lastPredicted, response, randoms, frames>>
    /\ UNCHANGED <<callVars, uiVars>>

StepFrameSkipsAhead ==
    /\ ~effectPending
    /\ frames < DEFAULT_STEPS - 1
    /\ frames' = frames + 1
    /\ data' = [i \in 1..Len(data) |->
                  [data[i] EXCEPT !.angle = data[i].angle + 2 * data[i].speed]]
    /\ meshPositions' = [i \in 1..Len(data) |-> OnCircle(data'[i], data'[i].angle)]
    /\ UNCHANGED <<collisions, objectPositions, clock, timerData,
                   effectPending, cycled, lastChecked, lastPredicted,
                   response, randoms, produced>>
    /\ UNCHANGED <<callVars, uiVars>>

\* One frame: useFrame of every SpaceObject advances the body's angle by its
\* speed and moves the mesh there.
StepFrame ==
    /\ ~effectPending
    /\ frames < DEFAULT_STEPS - 1
    /\ frames' = frames + 1
    /\ data' = [i \in 1..Len(data) |->
                  [data[i] EXCEPT !.angle = data[i].angle + data[i].speed]]
    /\ meshPositions' = [i \in 1..Len(data) |-> OnCircle(data'[i], data'[i].angle)]
    /\ UNCHANGED <<collisions, objectPositions, clock, timerData,
                   effectPending, cycled, lastChecked, lastPredicted,
                   response, randoms, produced>>
    /\ UNCHANGED <<callVars, uiVars>>

NextStep == StepMount \/ StepFrame

SpecStep == InitStep /\ [][NextStep]_vars

----------------------------------------------------------------------------
(* Specification SpecZoom: the component and its two zoom buttons.         *)

NextZoom == HandleZoom

SpecZoom == Init /\ [][NextZoom]_vars

----------------------------------------------------------------------------
(* Specification SpecFrame: one SpaceObject component given any body, its  *)
(* useFrame run at successive clock times, and predictCollisions called on *)
(* the same body.                                                          *)

\* The bodies a SpaceObject component is given here: orbit radii below and
\* above MIN_ORBIT_DISTANCE, circular and eccentric, every inclination.
FrameBodies ==
    { SpaceObject("a", "asteroid", orbitRadius, eccentricity, inclination,
                  phase, speed, 5) :
        orbitRadius \in {50, 100, 200}, eccentricity \in {0, 60},
        inclination \in 0..(FullTurn - 1), phase \in 0..(QuarterTurn - 1),
        speed \in {-QuarterTurn, QuarterTurn} }

\* A position an earlier body of the same id has left in the cache.
StalePosition == Vector3(0, 2 * UNIT, 0)

InitFrame ==
    /\ UiIdle
    /\ clockStop = MaxClock
    /\ GenIdle
    /\ trail = NoTrails
    /\ data \in { <<body>> : body \in FrameBodies }
    /\ collisions = <<>>
    /\ objectPositions \in
           { NoPositions, [NoPositions EXCEPT !["a"] = StalePosition] }
    /\ meshPositions = NoPositions
    /\ clock \in BeforeFirstFrame..(MaxClock - 1)
    /\ timerData = data
    /\ effectPending = FALSE
    /\ cycled = FALSE
    /\ lastChecked = <<>>
    /\ lastPredicted = <<>>
    /\ objects = data
    /\ timeSteps = MaxSteps
    /\ stepSize = CHECK_STEP_SIZE
    /\ pc = "start"
    /\ step = 0
    /\ futurePositions = <<>>
    /\ predictedCollisions = <<>>
    /\ returned = <<>>
    /\ detected = <<>>
    /\ stepsRun = <<>>
    /\ propagations = [i \in 1..Len(objects) |-> 0]
    /\ detectCalls = 0

NextFrame == Frame \/ NextCall

SpecFrame == InitFrame /\ [][NextFrame]_vars

----------------------------------------------------------------------------
(* Specification SpecMerge: the component once a batch of many bodies is   *)
(* set and its timer registered: frames and ticks of the check timer.      *)

\* Batches in which up to five pairs of bodies collide now or within the
\* predicted steps.
MergeBatches ==
    { <<BodyA, BodyC, BodyF, BodyG, BodyH, BodyI>>,
      <<BodyA, BodyB, BodyC, BodyF, BodyG, BodyH, BodyI, BodyJ>>,
      <<BodyJ, BodyI, BodyH, BodyG, BodyF, BodyC, BodyB, BodyA>>,
      <<BodyC, BodyA, BodyG, BodyF, BodyI, BodyH>>,
      <<BodyA, BodyB, BodyC, BodyJ, BodyF, BodyG>>,
      <<BodyF, BodyG, BodyH, BodyI, BodyA, BodyB>>,
      <<BodyA, BodyB, BodyC, BodyJ, BodyF, BodyG, BodyK, BodyL>>,
      <<BodyK, BodyL, BodyA, BodyB, BodyC, BodyF, BodyG>>,
      <<BodyA, BodyC, BodyJ, BodyK, BodyL, BodyH, BodyI>> }

InitMerge ==
    /\ UiIdle
    /\ clockStop = MaxClock
    /\ GenIdle
    /\ trail = NoTrails
    /\ data \in MergeBatches
    /\ timerData = data
    /\ collisions = <<>>
    /\ objectPositions = NoPositions
    /\ meshPositions = NoPositions
    /\ clock = BeforeFirstFrame
    /\ effectPending = FALSE
    /\ cycled = FALSE
    /\ lastChecked = <<>>
    /\ lastPredicted = <<>>
    /\ objects = <<>>
    /\ timeSteps = 0
    /\ stepSize = 0
    /\ pc = "idle"
    /\ step = 0
    /\ futurePositions = <<>>
    /\ predictedCollisions = <<>>
    /\ returned = <<>>
    /\ detected = <<>>
    /\ stepsRun = <<>>
    /\ propagations = <<>>
    /\ detectCalls = 0

NextMerge == Frame \/ CheckCollisions

SpecMerge == InitMerge /\ [][NextMerge]_vars

----------------------------------------------------------------------------
(* Specification SpecGen: the producers of a batch, generateRandomData and  *)
(* fetchNASAData, each applied once to inputs drawn when the run starts:    *)
(* the values Math.random() returns and the items of the catalog's answer.  *)
(* Numbers are in UNIT; angles here are radians in UNIT, as produced.       *)

\* The value parseFloat gives for a text that is no number, and that
\* arithmetic and Math.max pass on: a value no computation here yields.
NaN == 0 - 2^30

IsNaN(x) == x = NaN

\* a * b, a / b and Math.max(a, b) of JavaScript numbers.
Times(a, b) == IF IsNaN(a) \/ IsNaN(b) THEN NaN ELSE Mul(a, b)

Divide(a, b) == IF IsNaN(a) \/ IsNaN(b) THEN NaN ELSE (a * UNIT) \div b

MathMax(a, b) == IF IsNaN(a) \/ IsNaN(b) THEN NaN ELSE Max(a, b)

\* Math.PI.
PI == 314

\* The values Math.random() returns here: 0, 0.49 and 0.99.
RandomValues == {0, 49, 99}

\* generateRandomObject: nine values of Math.random(), in the order the code
\* draws them: orbitRadius, speed (magnitude, direction), eccentricity, id,
\* name, phase, inclination, size (drawn for no debris).
generateRandomObject(type, draws) ==
    LET orbitRadius ==
            MathMax(Mul(draws[1], MAX_ORBIT_RADIUS - MIN_ORBIT_DISTANCE)
                      + MIN_ORBIT_DISTANCE,
                    MIN_ORBIT_DISTANCE)
        speed ==
            (Mul(draws[2], (2 * UNIT) \div 10) + UNIT \div 10)
              * (IF draws[3] < UNIT \div 2 THEN 1 ELSE -1)
        eccentricity == Mul(draws[4], UNIT \div 2)
    IN  [id |-> <<"random", draws[5]>>,
         name |-> <<type, Mul(draws[6], 1000 * UNIT) \div UNIT>>,
         type |-> type,
         orbitRadius |-> orbitRadius,
         speed |-> speed,
         phase |-> Mul(Mul(draws[7], PI), 2 * UNIT),
         inclination |-> Mul(draws[8], PI) \div 3,
         size |-> IF type = "debris" THEN UNIT \div 100
                  ELSE Mul(draws[9], (5 * UNIT) \div 100) + (2 * UNIT) \div 100,
         eccentricity |-> eccentricity]

\* How many values of Math.random() generateRandomObject draws.
DrawsOf(type) == IF type = "debris" THEN 8 ELSE 9

\* The types generateRandomData draws from.
GeneratedTypes == <<"satellite", "asteroid", "debris">>

\* generateRandomData(count): per body, a type drawn by Math.random(), then
\* generateRandomObject(type).
RECURSIVE generateRandomData(_, _)
generateRandomData(count, draws) ==
    IF count = 0 THEN <<>>
    ELSE LET type ==
                 GeneratedTypes[(Mul(draws[1], Len(GeneratedTypes) * UNIT)
                                   \div UNIT) + 1]
             used == 1 + DrawsOf(type)
         IN  <<generateRandomObject(type, SubSeq(draws, 2, Len(draws)))>>
               \o generateRandomData(count - 1,
                                     SubSeq(draws, used + 1, Len(draws)))

\* The texts the catalog sends for numbers, and the number parseFloat reads.
Numerals ==
    ("0.68" :> 68) @@ ("0.98" :> 98) @@ ("1.2" :> 120) @@ ("2.5" :> 250)
      @@ ("5.5" :> 550) @@ ("30" :> 30 * UNIT)

\* parseFloat of a field of an item: NaN for a field the item lacks
\* (parseFloat(undefined)) and for a text that does not start with a number.
ParseFloat(item, field) ==
    IF field \in DOMAIN item /\ item[field] \in DOMAIN Numerals
    THEN Numerals[item[field]]
    ELSE NaN

\* item.object.startsWith("P/").
StartsWithP(object) == object \in {"P/2004 R1"}

\* The callback of data.map in fetchNASAData.
FetchedObject(item, draw) ==
    [id |-> item.object,
     name |-> IF "object_name" \in DOMAIN item THEN item.object_name
              ELSE item.object,
     type |-> IF StartsWithP(item.object) THEN "comet" ELSE "asteroid",
     orbitRadius |->
         MathMax(Times(ParseFloat(item, "q_au_1"), EARTH_RADIUS),
                 MIN_ORBIT_DISTANCE),
     speed |-> Divide(UNIT \div 10, ParseFloat(item, "p_yr")),
     phase |-> Mul(Mul(draw, PI), 2 * UNIT),
     inclination |->
         Divide(Times(ParseFloat(item, "i_deg"), PI), 180 * UNIT),
     size |-> (5 * UNIT) \div 100,
     eccentricity |-> ParseFloat(item, "e"),
     perihelion |-> ParseFloat(item, "q_au_1"),
     aphelion |-> ParseFloat(item, "q_au_2"),
     orbitalPeriod |-> ParseFloat(item, "p_yr")]

\* fetchNASAData, from the answer on: data.map over the items.
fetchNASAData(items, draws) ==
    [k \in 1..Len(items) |-> FetchedObject(items[k], draws[k])]

\* A field the answer leaves out of an item.
Absent == ""

\* The items of an answer: numbers in and out of the range of a closed
\* orbit, a text that is no number, fields left out.
Items ==
    { LET sent == [object |-> object, object_name |-> object_name,
                   q_au_1 |-> q_au_1, p_yr |-> p_yr, i_deg |-> "30", e |-> e,
                   q_au_2 |-> "5.5"]
      IN  [field \in { f \in DOMAIN sent : sent[f] # Absent } |-> sent[field]] :
        object \in {"P/2004 R1", "C/2001 OG108"},
        object_name \in {"McNaught", Absent},
        q_au_1 \in {"0.98", "2.5", "n/a", Absent},
        p_yr \in {"5.5", Absent},
        e \in {"0.68", "1.2", Absent} }

\* How many values of Math.random() the run has at hand.
DrawsAtHand == 10

InitGen ==
    /\ AppIdle
    /\ CallIdle
    /\ frames = 0
    /\ produced = <<>>
    /\ \/ /\ randoms \in [1..DrawsAtHand -> RandomValues]
          /\ response = <<>>
       \/ /\ randoms \in [1..1 -> RandomValues]
          /\ response \in { <<item>> : item \in Items }

\* generateRandomData(count) is called.
GenerateRandomData ==
    /\ produced = <<>>
    /\ response = <<>>
    /\ produced' = generateRandomData(1, randoms)
    /\ UNCHANGED <<response, randoms, frames>>
    /\ UNCHANGED <<appVars, callVars, uiVars>>

\* fetchNASAData is called and the catalog answers.
FetchNASAData ==
    /\ produced = <<>>
    /\ response # <<>>
    /\ produced' = fetchNASAData(response, randoms)
    /\ UNCHANGED <<response, randoms, frames>>
    /\ UNCHANGED <<appVars, callVars, uiVars>>

NextGen == GenerateRandomData \/ FetchNASAData

SpecGen == InitGen /\ [][NextGen]_vars

----------------------------------------------------------------------------
(* Specification SpecTrail: the SpaceObject components of one batch,       *)
(* rendered frame after frame for longer than a trail is long.             *)

InitTrail ==
    /\ UiIdle
    /\ GenIdle
    /\ CallIdle
    /\ clockStop = TRAIL_LENGTH + MaxClock
    /\ trail = NoTrails
    /\ data \in Batches
    /\ timerData = data
    /\ collisions = <<>>
    /\ objectPositions = NoPositions
    /\ meshPositions = NoPositions
    /\ clock = BeforeFirstFrame
    /\ effectPending = FALSE
    /\ cycled = FALSE
    /\ lastChecked = <<>>
    /\ lastPredicted = <<>>

NextTrail == Frame

SpecTrail == InitTrail /\ [][NextTrail]_vars

\* The title CollisionAlert shows.
AlertTitle(collision) ==
    IF Truthy(collision) THEN "Collision Predicted!" ELSE "Collision Detected!"

----------------------------------------------------------------------------
(* Properties of one call (specification SpecCall). *)

\* The index in the argument list of the body an event refers to.
IndexOf(obj) == CHOOSE i \in 1..Len(objects) : objects[i].id = obj.id

\* (i1, j1) comes strictly before (i2, j2) in the order of the pair loops.
PairBefore(i1, j1, i2, j2) == i1 < i2 \/ (i1 = i2 /\ j1 < j2)

\* Some step of the call can be taken (a round is enabled by its guard alone).
CanStep ==
    \/ ENABLED (CallDetect \/ PredictEnter \/ PredictReturn)
    \/ (pc = "loop" /\ LoopContinues(step, timeSteps))

AllPositioned == \A i \in 1..Len(objects) : HasPosition(objects[i])

\* C1: when every body of the list has a recorded position, detectCollisions
\* returns an event for the index pair (i, j), i < j, exactly when the squared
\* Euclidean distance of the two positions is below (size_i + size_j)^2 (so a
\* pair at distance exactly size_i + size_j is not reported), every event is
\* for such a pair, and its distance field is the Euclidean distance of the two
\* positions (to the fixed-point unit).
C1_DetectIffCloserThanSizes ==
    (pc # "start" /\ AllPositioned) =>
        /\ \A i, j \in 1..Len(objects) :
              i < j =>
                ( (\E k \in 1..Len(detected) :
                      /\ detected[k].obj1 = objects[i]
                      /\ detected[k].obj2 = objects[j])
                  <=> DistanceToSquared(objects[i].position, objects[j].position)
                        < (objects[i].size + objects[j].size)
                            * (objects[i].size + objects[j].size) )
        /\ \A k \in 1..Len(detected) :
              LET c == detected[k]
                  squared == DistanceToSquared(c.obj1.position, c.obj2.position)
              IN  /\ \E i, j \in 1..Len(objects) :
                        i < j /\ c.obj1 = objects[i] /\ c.obj2 = objects[j]
                  /\ c.distance >= 0
                  /\ c.distance * c.distance <= squared
                  /\ squared < (c.distance + 1) * (c.distance + 1)

\* C1 witness: a and c (distance 3 < 5 + 3) are reported while b and c, at
\* distance exactly 4 = 1 + 3, are in the same list and are not.
C1_Witness ==
    /\ pc # "start"
    /\ AllPositioned
    /\ \E k \in 1..Len(detected) :
          /\ detected[k].obj1.id = "a"
          /\ detected[k].obj2.id = "c"
          /\ detected[k].distance = 3
    /\ \E i, j \in 1..Len(objects) :
          /\ i < j
          /\ objects[i].id = "b"
          /\ objects[j].id = "c"
          /\ DistanceTo(objects[i].position, objects[j].position)
                = objects[i].size + objects[j].size
    /\ ~\E k \in 1..Len(detected) :
          detected[k].obj1.id = "b" /\ detected[k].obj2.id = "c"

\* C3 (as claimed): after the round of step k, the position predictCollisions
\* has tested each body at is the position the per-frame propagation computes
\* for the elapsed time k * stepSize, the re-clamp to MIN_ORBIT_DISTANCE
\* included.
C3_FutureIsFramePosition ==
    (pc = "loop" /\ stepsRun # <<>>) =>
        \A i \in 1..Len(objects) :
            futurePositions[i].position
                = FramePosition(objects[i], stepsRun[Len(stepsRun)] * stepSize)

\* C4: every event predictCollisions has collected or returned carries
\* timeToCollision, and its value is k * stepSize for a k in 1..timeSteps.
C4_TimeToCollisionIsStepMultiple ==
    \A list \in {predictedCollisions, returned} :
        \A n \in 1..Len(list) :
            /\ HasTimeToCollision(list[n])
            /\ \E k \in 1..timeSteps :
                  list[n].timeToCollision = k * stepSize

\* C4 witness: a returned list with events of two different steps, the step
\* size not being 1.
C4_Witness ==
    /\ pc = "done"
    /\ stepSize = 2
    /\ \E m, n \in 1..Len(returned) :
          returned[m].timeToCollision # returned[n].timeToCollision

\* The per-step results of steps 1..n, concatenated in increasing step order.
RECURSIVE ConcatSteps(_)
ConcatSteps(n) ==
    IF n <= 0 THEN <<>>
    ELSE ConcatSteps(n - 1) \o StepCollisions(objects, n, stepSize)

\* C5: the returned list is the concatenation of the per-step detector
\* results in increasing step order; for stepSize > 0 timeToCollision does not
\* decrease along it, and events of one step are in the detector's pair order.
C5_ConcatenationInStepOrder ==
    pc = "done" =>
        /\ returned = ConcatSteps(timeSteps)
        /\ \A m, n \in 1..Len(returned) :
              m < n =>
                /\ stepSize > 0 =>
                      returned[m].timeToCollision <= returned[n].timeToCollision
                /\ (stepSize # 0
                    /\ returned[m].timeToCollision = returned[n].timeToCollision) =>
                      PairBefore(IndexOf(returned[m].obj1), IndexOf(returned[m].obj2),
                                 IndexOf(returned[n].obj1), IndexOf(returned[n].obj2))

\* C5 witness: a returned list holding two events of one step and an event of
\* a later step.
C5_Witness ==
    /\ pc = "done"
    /\ stepSize > 0
    /\ \E m, n \in 1..Len(returned) :
          m < n /\ returned[m].timeToCollision = returned[n].timeToCollision
    /\ \E m, n \in 1..Len(returned) :
          m < n /\ returned[m].timeToCollision < returned[n].timeToCollision

\* C6: the events detectCollisions returns are in strictly increasing
\* lexicographic order of their index pair (i, j), every pair has i < j, so no
\* unordered pair is reported twice, no body is paired with itself and there
\* are at most n * (n - 1) / 2 events.
C6_DetectPairOrder ==
    pc # "start" =>
        /\ \A k \in 1..Len(detected) :
              /\ IndexOf(detected[k].obj1) < IndexOf(detected[k].obj2)
              /\ detected[k].obj1 = objects[IndexOf(detected[k].obj1)]
              /\ detected[k].obj2 = objects[IndexOf(detected[k].obj2)]
        /\ \A m, n \in 1..Len(detected) :
              m < n =>
                PairBefore(IndexOf(detected[m].obj1), IndexOf(detected[m].obj2),
                           IndexOf(detected[n].obj1), IndexOf(detected[n].obj2))
        /\ 2 * Len(detected) <= Len(objects) * (Len(objects) - 1)

\* C6 witness: three bodies, two of whose pairs collide.
C6_Witness ==
    /\ pc # "start"
    /\ Len(objects) = 3
    /\ Len(detected) >= 2

\* C7: predictCollisions returns the empty list when the list has no body or
\* one body or timeSteps is 0 or negative, detectCollisions returns it for no
\* body or one body, and on such input the call is never stuck before its end.
C7_DegenerateInputIsEmpty ==
    /\ (pc = "done" /\ (Len(objects) <= 1 \/ timeSteps <= 0)) => returned = <<>>
    /\ (pc # "start" /\ Len(objects) <= 1) => detected = <<>>
    /\ (pc # "done" /\ (Len(objects) <= 1 \/ timeSteps <= 0)) => CanStep

\* C7 witness: two bodies that collide now, and a finished prediction of zero
\* steps that is empty.
C7_Witness ==
    /\ pc = "done"
    /\ timeSteps = 0
    /\ Len(objects) = 2
    /\ detected # <<>>
    /\ returned = <<>>

\* C8: a call with timeSteps = N >= 0 can always take its next step until it
\* has returned, never runs more than N rounds, and when it has returned it
\* has run exactly the rounds of steps 1..N in order, has propagated every body
\* N times and has invoked the detector N times, collisions or not.
C8_ExactlyNRounds ==
    /\ pc # "done" => CanStep
    /\ Len(stepsRun) <= Max(timeSteps, 0)
    /\ (pc = "done" /\ timeSteps >= 0) =>
            /\ stepsRun = [k \in 1..timeSteps |-> k]
            /\ \A i \in 1..Len(objects) : propagations[i] = timeSteps
            /\ detectCalls = timeSteps

\* The operator predictCollisions, which checkCollisions' action uses, returns
\* what the loop taken round by round returns.
PredictOperatorAgrees ==
    pc = "done" => returned = predictCollisions(objects, timeSteps, stepSize)

\* C8 witness: three steps on two bodies that never collide.
C8_Witness ==
    /\ pc = "done"
    /\ timeSteps = 3
    /\ stepSize = 1
    /\ Len(objects) = 2
    /\ returned = <<>>
    /\ detectCalls = 3

\* The unordered pairs of body identities a list of events reports, each with
\* the distance reported for it.
ReportedPairs(list) ==
    { <<{list[k].obj1.id, list[k].obj2.id}, list[k].distance>> :
        k \in 1..Len(list) }

\* The orders a list of n elements can be put in.
InputOrders(n) ==
    { perm \in [1..n -> 1..n] :
        \A i, j \in 1..n : perm[i] = perm[j] => i = j }

\* C11: detectCollisions on the input list in any other order reports the same
\* unordered pairs of bodies, each with the same distance; in particular
\* detectCollisions([a, b]) reports a collision exactly when
\* detectCollisions([b, a]) does.
C11_DetectIsSymmetric ==
    pc = "detected" =>
        \A perm \in InputOrders(Len(objects)) :
            ReportedPairs(detectCollisions(
                [i \in 1..Len(objects) |-> objects[perm[i]]]))
              = ReportedPairs(detected)

\* C11 witness: a list of two positioned bodies of different sizes whose
\* collision has been reported.
C11_Witness ==
    /\ pc = "detected"
    /\ Len(objects) = 2
    /\ AllPositioned
    /\ objects[1].size # objects[2].size
    /\ Len(detected) = 1

\* C14: detectCollisions returns for every input list; a pair in which a body
\* has no recorded position yields no event, and every pair of positioned
\* bodies is still tested: it yields an event exactly when the bodies are
\* closer than the sum of their sizes.
C14_UndefinedPositionsAreSkipped ==
    /\ pc = "start" => ENABLED CallDetect
    /\ pc # "start" =>
          \A i, j \in 1..Len(objects) :
              i < j =>
                LET reported ==
                        \E k \in 1..Len(detected) :
                            /\ detected[k].obj1 = objects[i]
                            /\ detected[k].obj2 = objects[j]
                IN  IF HasPosition(objects[i]) /\ HasPosition(objects[j])
                    THEN reported
                           <=> DistanceToSquared(objects[i].position,
                                                 objects[j].position)
                                 < (objects[i].size + objects[j].size)
                                   * (objects[i].size + objects[j].size)
                    ELSE ~reported

\* C14 witness: the first body of the list has no position, and a collision
\* of two bodies after it has been reported.
C14_Witness ==
    /\ pc # "start"
    /\ Len(objects) = 3
    /\ ~HasPosition(objects[1])
    /\ Len(detected) = 1
    /\ detected[1].obj1 = objects[2]
    /\ detected[1].obj2 = objects[3]

----------------------------------------------------------------------------
(* Properties of the component (specification Spec). *)

\* C2: every position a frame has written to a mesh or to the position cache
\* is at least MIN_ORBIT_DISTANCE from the origin.
C2_WrittenPositionsKeepMinimum ==
    \A id \in Ids :
        \A position \in {objectPositions[id], meshPositions[id]} :
            position # Undefined =>
                LengthSq(position) >= MIN_ORBIT_DISTANCE * MIN_ORBIT_DISTANCE

\* C2 witness: body a after a quarter turn, on its semi-minor axis of 1.2,
\* has been written at distance 1.5.
C2_Witness ==
    /\ clock = 1
    /\ objectPositions["a"] = Vector3(0, MIN_ORBIT_DISTANCE, 0)
    /\ meshPositions["a"] = Vector3(0, MIN_ORBIT_DISTANCE, 0)
    /\ SemiMinorAxis(BodyA.orbitRadius, BodyA.eccentricity) < MIN_ORBIT_DISTANCE

\* What predictCollisions returns for each batch as the producer hands it over,
\* before any frame has recorded a position.
BarePrediction ==
    [batch \in Batches \cup FilterBatches \cup {<<>>} |->
        predictCollisions(batch, CHECK_TIME_STEPS, CHECK_STEP_SIZE)]

\* C9: the predicted list of a check cycle is the one predictCollisions gives
\* for the bare batch (orbital parameters only, no recorded position) with
\* checkCollisions' timeSteps and stepSize, whatever the clock and the position
\* cache were when the cycle ran; so every cycle on an unchanged batch
\* predicts the same list.
C9_PredictionIgnoresClockAndCache ==
    cycled => lastPredicted = BarePrediction[timerData]

\* C9 witness: a cycle that predicted collisions ran on objects one of which
\* had a recorded position other than its position at elapsed time 0.
C9_Witness ==
    /\ cycled
    /\ lastPredicted # <<>>
    /\ \E i \in 1..Len(lastChecked) :
          /\ HasPosition(lastChecked[i])
          /\ lastChecked[i].position # FramePosition(timerData[i], 0)

\* C10: in the displayed list an event carries timeToCollision exactly when
\* predictCollisions produced it; a predicted event's timeToCollision is
\* strictly positive; so the alert's title is 'Collision Predicted!' exactly
\* for the predicted events and 'Collision Detected!' exactly for the events
\* of detectCollisions.
C10_TimeToCollisionMarksPredicted ==
    \A k \in 1..Len(collisions) :
        LET c == collisions[k]
        IN  /\ c.producedBy \in {"detectCollisions", "predictCollisions"}
            /\ HasTimeToCollision(c) <=> c.producedBy = "predictCollisions"
            /\ c.producedBy = "predictCollisions" => c.timeToCollision > 0
            /\ AlertTitle(c) = "Collision Predicted!"
                  <=> c.producedBy = "predictCollisions"
            /\ AlertTitle(c) = "Collision Detected!"
                  <=> c.producedBy = "detectCollisions"

\* C10 witness: the displayed list holds a detected and a predicted event.
C10_Witness ==
    /\ \E k \in 1..Len(collisions) : collisions[k].producedBy = "detectCollisions"
    /\ \E k \in 1..Len(collisions) : collisions[k].producedBy = "predictCollisions"

\* The two body identities of an event, in no order.
PairOf(c) == {c.obj1.id, c.obj2.id}

\* C15: the displayed list holds at most one event per unordered pair of body
\* identities: no two of its events involve the same two bodies, in either
\* order.
C15_OneEventPerUnorderedPair ==
    \A k, l \in 1..Len(collisions) :
        k # l => PairOf(collisions[k]) # PairOf(collisions[l])

\* The events of the last check cycle: what detectCollisions reported for the
\* objects it built, then what predictCollisions returned.
CycleEvents ==
    ProducedBy(detectCollisions(lastChecked), "detectCollisions")
        \o ProducedBy(lastPredicted, "predictCollisions")

\* Event kept is as soon as event other: an instantaneous event is sooner than
\* any predicted one, instantaneous events go by distance, predicted ones by
\* timeToCollision.
NotLater(kept, other) ==
    IF HasTimeToCollision(other)
    THEN ~HasTimeToCollision(kept)
           \/ kept.timeToCollision <= other.timeToCollision
    ELSE ~HasTimeToCollision(kept) /\ kept.distance <= other.distance

\* C16: the event the displayed list keeps for a pair of bodies is the soonest
\* of the events for that pair: no event the cycle detected or predicted for
\* the same pair is sooner (smaller timeToCollision, an instantaneous event
\* before any predicted one, instantaneous events by smaller distance).
C16_KeptEventIsSoonest ==
    cycled =>
        \A k \in 1..Len(collisions) :
            \A m \in 1..Len(CycleEvents) :
                SamePair(CycleEvents[m], collisions[k]) =>
                    NotLater(collisions[k], CycleEvents[m])

\* C19: after a check cycle every event of the displayed list is an event that
\* cycle detected or predicted; nothing of an earlier cycle is displayed.
C19_EventsAreOfTheLastCycle ==
    cycled =>
        \A k \in 1..Len(collisions) :
            \E m \in 1..Len(CycleEvents) : collisions[k] = CycleEvents[m]

\* C20: every event of the displayed list refers to two bodies of the current
\* batch, whenever the old timer, the end of generateNewSample and the
\* registration of the new timer run.
C20_EventsReferToCurrentBatch ==
    \A k \in 1..Len(collisions) :
        /\ collisions[k].obj1.id \in IdsOf(data)
        /\ collisions[k].obj2.id \in IdsOf(data)

----------------------------------------------------------------------------
(* Properties of the merge (specification SpecMerge). *)

\* C17: the displayed list is sorted: two events that both carry
\* timeToCollision stand in non-decreasing timeToCollision order, and two
\* events of which at least one lacks timeToCollision stand in non-decreasing
\* distance order.
C17_DisplayedListIsSorted ==
    \A k, l \in 1..Len(collisions) :
        k < l =>
            IF HasTimeToCollision(collisions[k]) /\ HasTimeToCollision(collisions[l])
            THEN collisions[k].timeToCollision <= collisions[l].timeToCollision
            ELSE collisions[k].distance <= collisions[l].distance

\* The first n entries of a list, or all of it if it is shorter.
FirstEntries(list, n) == SubSeq(list, 1, IF Len(list) < n THEN Len(list) ELSE n)

\* A step of SpecMerge that is a tick of the check timer: a frame that changes
\* anything changes the clock or a position, a tick changes neither.
CheckStep ==
    /\ clock' = clock
    /\ objectPositions' = objectPositions
    /\ meshPositions' = meshPositions

----------------------------------------------------------------------------
(* Properties of the propagation (specification SpecFrame). *)

\* C12: for a body with orbitRadius below MIN_ORBIT_DISTANCE and eccentricity
\* 0, the position useFrame writes and the position predictCollisions tests
\* have magnitude exactly MIN_ORBIT_DISTANCE, at every time and for every
\* inclination.
C12_SmallOrbitIsAtMinimumDistance ==
    \A i \in 1..Len(data) :
        (data[i].orbitRadius < MIN_ORBIT_DISTANCE /\ data[i].eccentricity = 0) =>
            /\ meshPositions[data[i].id] # Undefined =>
                  /\ LengthSq(meshPositions[data[i].id])
                       = MIN_ORBIT_DISTANCE * MIN_ORBIT_DISTANCE
                  /\ objectPositions[data[i].id] = meshPositions[data[i].id]
            /\ futurePositions # <<>> =>
                  LengthSq(futurePositions[i].position)
                    = MIN_ORBIT_DISTANCE * MIN_ORBIT_DISTANCE

\* C12 witness: a body of orbit radius 0.5 on an inclined circular orbit has
\* been written by a frame and propagated by predictCollisions, off the axes.
C12_Witness ==
    /\ data[1].orbitRadius = 50
    /\ data[1].eccentricity = 0
    /\ data[1].inclination % QuarterTurn # 0
    /\ clock > 0
    /\ meshPositions["a"] # Undefined
    /\ \A k \in 1..3 : meshPositions["a"][k] # 0
    /\ futurePositions # <<>>

\* C13: the position a frame writes is a function of the body's orbital
\* parameters and the clock time alone: whatever frames ran before and
\* whatever the position cache held, it is the position computed afresh for
\* that body and that time.
C13_PropagationIsDeterministic ==
    \A i \in 1..Len(data) :
        meshPositions[data[i].id] # Undefined =>
            /\ meshPositions[data[i].id] = FramePosition(data[i], clock)
            /\ objectPositions[data[i].id] = meshPositions[data[i].id]

\* C13 witness: an eccentric, inclined body written at a time after 0, where
\* its position differs from the one at time 0.
C13_Witness ==
    /\ data[1].eccentricity # 0
    /\ data[1].inclination % QuarterTurn # 0
    /\ clock = MaxClock
    /\ meshPositions["a"] # Undefined
    /\ meshPositions["a"] # FramePosition(data[1], 0)

----------------------------------------------------------------------------
(* Properties of the producers (specification SpecGen). *)

\* a >= b and a < b of JavaScript numbers: false if either is NaN.
AtLeast(a, b) == ~IsNaN(a) /\ ~IsNaN(b) /\ a >= b

LessThan(a, b) == ~IsNaN(a) /\ ~IsNaN(b) /\ a < b

\* A body of generateRandomData carries none of the catalog's fields.
IsSynthetic(body) == "perihelion" \notin DOMAIN body

\* C21: every body generateRandomObject or fetchNASAData has produced has
\* orbitRadius >= MIN_ORBIT_DISTANCE (1.5), and every synthetic body has
\* orbitRadius <= MAX_ORBIT_RADIUS (10).
C21_OrbitRadiusWithinRange ==
    \A k \in 1..Len(produced) :
        /\ AtLeast(produced[k].orbitRadius, MIN_ORBIT_DISTANCE)
        /\ IsSynthetic(produced[k]) =>
               AtLeast(MAX_ORBIT_RADIUS, produced[k].orbitRadius)

\* C22: every body of a batch, synthetic or catalog, has eccentricity in
\* [0, 1), so that b = a * sqrt(1 - e^2) is real with 0 < b <= a.
C22_EccentricityOfClosedOrbit ==
    \A k \in 1..Len(produced) :
        /\ AtLeast(produced[k].eccentricity, 0)
        /\ LessThan(produced[k].eccentricity, UNIT)

----------------------------------------------------------------------------
(* Properties of the trail (specification SpecTrail). *)

\* How many frames the components of SpecTrail have rendered.
FramesRendered == clock - BeforeFirstFrame

\* C23: after any number of frames a body's trail holds min(frames rendered,
\* 100) positions, never more than 100: the most recent positions written,
\* in the order they were computed, the newest last; the oldest are dropped
\* first.
C23_TrailHoldsTheLastHundred ==
    \A i \in 1..Len(data) :
        LET points == trail[data[i].id]
        IN  /\ Len(points) = Min(FramesRendered, TRAIL_LENGTH)
            /\ Len(points) <= TRAIL_LENGTH
            /\ \A k \in 1..Len(points) :
                   points[k] = FramePosition(data[i], clock - Len(points) + k)

\* C23 witness: more than 100 frames have been rendered; the trail is full,
\* no longer starts with the first frame's position and ends with the last.
C23_Witness ==
    /\ FramesRendered > TRAIL_LENGTH + 1
    /\ Len(trail["a"]) = TRAIL_LENGTH
    /\ trail["a"][1] = FramePosition(BodyA, clock - TRAIL_LENGTH + 1)
    /\ trail["a"][1] # FramePosition(BodyA, 0)
    /\ trail["a"][TRAIL_LENGTH] = meshPositions["a"]

----------------------------------------------------------------------------
(* Properties of the list between two batches (specification SpecMerge). *)

\* The entries of a list after its first n.
EntriesAfter(list, n) ==
    IF Len(list) <= n THEN <<>> ELSE SubSeq(list, n + 1, Len(list))

\* Whether a list holds an event of the same two bodies, in the same order.
HoldsPair(list, c) == \E k \in 1..Len(list) : SamePair(list[k], c)

----------------------------------------------------------------------------
(* Properties of selecting and following (specification SpecSelect). *)

\* Whether a body is one of a batch.
InBatch(body, batch) == \E i \in 1..Len(batch) : batch[i] = body

\* C25: no state of the page refers to a body that is not of the current
\* batch: selectedObject is null or a body of the batch, followedObject is
\* null or a body of the batch, and whenever followedObject is set,
\* selectedObject is set.
C25_NoReferenceToDiscardedBody ==
    /\ selectedObject # Null => InBatch(selectedObject, data)
    /\ followedObject # Null => InBatch(followedObject, data)
    /\ followedObject # Null => selectedObject # Null

\* A step that is a frame: only a frame moves the clock.
FrameStep == clock' # clock

\* C30: a frame rendered while a body is followed, and rendered itself,
\* leaves the camera at the position the frame has recorded for that body
\* with setPosition, plus (0, 0, 5).
C30_CameraFollowsBody ==
    [][(/\ FrameStep
        /\ followedObject # Null
        /\ InBatch(followedObject, FilteredData(data, filters)))
       => \A position \in { objectPositions'[followedObject.id] } :
              cameraPosition'
                = Vector3(position[1], position[2],
                          position[3] + FOLLOW_DISTANCE)]_vars

----------------------------------------------------------------------------
(* Properties of the filters (specification SpecFilter). *)

\* A step that is a click on a filter button.
FilterStep == filters' # filters

\* A step that is a tick of the check timer and changes anything.
TickStep ==
    lastChecked' # lastChecked \/ collisions' # collisions \/ cycled' # cycled

\* Whether a body is hidden by the filters.
IsHidden(body) == ~filters[body.type]

\* C26: a click on a filter changes neither the batch nor the position cache
\* nor the displayed list; no entry of the cache is ever removed; a frame
\* propagates the rendered bodies and leaves the cache entry of a hidden
\* body as it was; a check cycle examines every body of the batch, hidden or
\* not, at its cached position, and predicts for every body of the batch.
C26_FilterOnlyHidesBodies ==
    /\ [][FilterStep =>
             /\ data' = data
             /\ timerData' = timerData
             /\ objectPositions' = objectPositions
             /\ collisions' = collisions]_vars
    /\ [][\A id \in Ids :
             objectPositions[id] # Undefined =>
                 objectPositions'[id] # Undefined]_vars
    /\ [][FrameStep =>
             \A i \in 1..Len(data) :
                 IF IsHidden(data[i])
                 THEN objectPositions'[data[i].id] = objectPositions[data[i].id]
                 ELSE objectPositions'[data[i].id]
                        = FramePosition(data[i], clock')]_vars
    /\ [][TickStep =>
             /\ lastChecked' = CachedObjects(timerData)
             /\ lastPredicted' = BarePrediction[timerData]]_vars

\* C26 witness: a body was hidden, a frame has moved the other body on, and
\* a check cycle has examined the hidden body where the cache still has it:
\* the list holds a detected event of the hidden body at that position and
\* the other body at its position of the last frame, and the cycle has
\* predicted an event of the hidden body.
C26_Witness ==
    /\ cycled
    /\ \E i \in 1..Len(timerData) :
          /\ IsHidden(timerData[i])
          /\ meshPositions[timerData[i].id] = Undefined
          /\ HasPosition(lastChecked[i])
          /\ lastChecked[i].position = objectPositions[timerData[i].id]
          /\ lastChecked[i].position # FramePosition(timerData[i], clock)
          /\ \E k \in 1..Len(collisions), j \in 1..Len(timerData) :
                /\ collisions[k].producedBy = "detectCollisions"
                /\ PairOf(collisions[k]) = {timerData[i].id, timerData[j].id}
                /\ {collisions[k].obj1.position, collisions[k].obj2.position}
                     = {lastChecked[i].position,
                        FramePosition(timerData[j], clock)}
          /\ \E m \in 1..Len(lastPredicted) :
                timerData[i].id \in PairOf(lastPredicted[m])

----------------------------------------------------------------------------
(* Properties of the check timers (specification SpecTimer). *)

\* C27: at most one interval is active at any time: a run of the [data]
\* effect clears the interval of the run before it and registers one, and
\* the unmount clears the last; a tick examines the bodies of the batch that
\* the effect run which registered its interval has captured.
C27_OneTimerAtATime ==
    /\ Cardinality(intervals) <= 1
    /\ mounted => intervals = {interval}
    /\ ~mounted => intervals = {}
    /\ cycled =>
          /\ Len(lastChecked) = Len(timerData)
          /\ \A i \in 1..Len(timerData) : lastChecked[i].id = timerData[i].id

\* C27 witness: the effect has run again for a second batch while the first
\* batch's events were displayed, its interval has ticked, and the component
\* has been unmounted.
C27_Witness ==
    /\ ~mounted
    /\ cycled
    /\ timerData \in Batches
    /\ timerData = data
    /\ \E k \in 1..Len(collisions) :
          collisions[k].obj1.id \notin IdsOf(timerData)
            \/ collisions[k].obj2.id \notin IdsOf(timerData)

----------------------------------------------------------------------------
(* Properties of the earlier, angle-stepping revision (specification       *)
(* SpecStep).                                                              *)

\* The events of the list that carry the date of a step.
EventsOfStep(stp) ==
    { k \in 1..Len(collisions) :
        collisions[k].time = FIRST_DAY + stp * DEFAULT_TIME_STEP }

\* C28: after k frames (k in 0..steps-1) the mesh of every body is where the
\* prediction made at mount evaluates the body at step k (angle + k * speed,
\* same radius and y); at step 0 that is the position the body is mounted
\* at; the events dated for step k are exactly the pairs whose meshes are
\* then closer than the sum of their sizes, and an event's marker is the
\* mean of the two meshes' positions.
C28_PredictionAgreesWithAnimation ==
    ~effectPending =>
        /\ frames \in 0..(DEFAULT_STEPS - 1)
        /\ \A i \in 1..Len(produced) :
              /\ meshPositions[i] = FutureObj(produced[i], frames)
              /\ data[i].angle = produced[i].angle + frames * produced[i].speed
              /\ data[i].radius = produced[i].radius
              /\ data[i].y = produced[i].y
              /\ frames = 0 =>
                    meshPositions[i] = OnCircle(produced[i], produced[i].angle)
        /\ \A k \in EventsOfStep(frames) :
              \E i, j \in 1..Len(data) :
                 /\ i < j
                 /\ collisions[k].object1 = data[i].id
                 /\ collisions[k].object2 = data[j].id
                 /\ DistanceTo(meshPositions[i], meshPositions[j])
                        < data[i].size + data[j].size
                 /\ collisions[k].x
                        = (meshPositions[i][1] + meshPositions[j][1]) \div 2
                 /\ collisions[k].y
                        = (meshPositions[i][2] + meshPositions[j][2]) \div 2
                 /\ collisions[k].z
                        = (meshPositions[i][3] + meshPositions[j][3]) \div 2
        /\ \A i, j \in 1..Len(data) :
              (i < j /\ DistanceTo(meshPositions[i], meshPositions[j])
                            < data[i].size + data[j].size)
                 => \E k \in EventsOfStep(frames) :
                       /\ collisions[k].object1 = data[i].id
                       /\ collisions[k].object2 = data[j].id

\* C28 witness: frames have run, two bodies that were apart when the
\* component was mounted are now closer than the sum of their sizes, and the
\* list holds the event dated for this frame.
C28_Witness ==
    /\ ~effectPending
    /\ frames > 0
    /\ EventsOfStep(frames) # {}
    /\ EventsOfStep(0) = {}
    /\ \E i, j \in 1..Len(data) :
          /\ i < j
          /\ data[i].speed # data[j].speed
          /\ DistanceTo(meshPositions[i], meshPositions[j])
                < data[i].size + data[j].size

----------------------------------------------------------------------------
(* Properties of the zoom buttons (specification SpecZoom). *)

ZoomStep == cameraZoom' # cameraZoom

\* C29: after any sequence of zoom-in and zoom-out clicks from the initial
\* value 15, cameraZoom is within [5, 50]; a click sets it to 0.9 times
\* (zoom in) or 1.1 times (zoom out) its value, limited to that range, so a
\* zoom-in at 5 and a zoom-out at 50 leave it as it is.
C29_ZoomStaysWithinLimits ==
    /\ [](MIN_ZOOM <= cameraZoom /\ cameraZoom <= MAX_ZOOM)
    /\ [][ZoomStep =>
            \/ cameraZoom' = Max(MIN_ZOOM, (cameraZoom * 9) \div 10)
            \/ cameraZoom' = Min(MAX_ZOOM, (cameraZoom * 11) \div 10)]_vars
    /\ [][cameraZoom = MIN_ZOOM => cameraZoom' >= cameraZoom]_vars
    /\ [][cameraZoom = MAX_ZOOM => cameraZoom' <= cameraZoom]_vars
    /\ [](cameraZoom = MIN_ZOOM => ZoomAfter(cameraZoom, "in") = cameraZoom)
    /\ [](cameraZoom = MAX_ZOOM => ZoomAfter(cameraZoom, "out") = cameraZoom)

\* C29 witness: zoom-out clicks have taken the camera to the far limit, which
\* one more zoom-out would pass.
C29_Witness ==
    /\ cameraZoom = MAX_ZOOM
    /\ (cameraZoom * 11) \div 10 > MAX_ZOOM
    /\ cameraPosition = Vector3(0, 0, MAX_ZOOM)

====
